---------------------------- MODULE Spec2Model ----------------------------
(***************************************************************************)
(* Pension-savings calculator (src/app.py, src/main.py).                   *)
(*                                                                         *)
(* Money is counted in units of 10,000 won (every statutory constant of    *)
(* the source is a multiple of it).  The source computes in Python floats; *)
(* the model computes the same expressions in exact rational arithmetic:   *)
(* a number is a pair <<n, d>> with d > 0 and gcd(n, d) = 1.               *)
(***************************************************************************)
EXTENDS Integers, Sequences, FiniteSets, TLC

---------------------------------------------------------------------------
\* Exact rational arithmetic, standing for Python's float operators.

Abs(x) == IF x < 0 THEN -x ELSE x

RECURSIVE Gcd(_, _)
Gcd(a, b) == IF b = 0 THEN a ELSE Gcd(b, a % b)

Norm(n, d) ==
    LET g == Gcd(Abs(n), Abs(d))
        s == IF d < 0 THEN -1 ELSE 1
    IN  <<s * (n \div g), s * (d \div g)>>

R(n) == <<n, 1>>

Frac(n, d) == Norm(n, d)

Zero == R(0)

One == R(1)

RAdd(x, y) ==
    LET g == Gcd(x[2], y[2])
    IN  Norm(x[1] * (y[2] \div g) + y[1] * (x[2] \div g), (x[2] \div g) * y[2])

RNeg(x) == <<-x[1], x[2]>>

RSub(x, y) == RAdd(x, RNeg(y))

RMul(x, y) ==
    LET g1 == Gcd(Abs(x[1]), y[2])
        g2 == Gcd(Abs(y[1]), x[2])
    IN  <<(x[1] \div g1) * (y[1] \div g2), (x[2] \div g2) * (y[2] \div g1)>>

RInv(x) == IF x[1] < 0 THEN <<-x[2], -x[1]>> ELSE <<x[2], x[1]>>

RDiv(x, y) == RMul(x, RInv(y))

RLt(x, y) ==
    LET g == Gcd(x[2], y[2])
    IN  x[1] * (y[2] \div g) < y[1] * (x[2] \div g)

RLe(x, y) == ~RLt(y, x)

RMin(x, y) == IF RLe(x, y) THEN x ELSE y

RMax(x, y) == IF RLe(y, x) THEN x ELSE y

RECURSIVE RPow(_, _)
RPow(x, k) == IF k = 0 THEN One ELSE RMul(x, RPow(x, k - 1))

---------------------------------------------------------------------------
\* Statutory constants, src/app.py lines 35-56.

MIN_RETIREMENT_AGE == 55

MIN_CONTRIBUTION_YEARS == 5

MIN_PAYOUT_YEARS == 10

PENSION_TAX_THRESHOLD == 1500

SEPARATE_TAX_RATE == Frac(165, 1000)

OTHER_INCOME_TAX_RATE == Frac(165, 1000)

PENSION_SAVING_TAX_CREDIT_LIMIT == 600

MAX_CONTRIBUTION_LIMIT == 1800

PENSION_TAX_RATES ==
    [under_70 |-> Frac(55, 1000), under_80 |-> Frac(44, 1000), over_80 |-> Frac(33, 1000)]

LOCAL_TAX_RATE == Frac(1, 10)

\* A variant of the table whose second bracket deducts 2,160,000 instead of 1,260,000.
COMPREHENSIVE_TAX_BRACKETS_DeductionSlip ==
    << [inf |-> FALSE, threshold |-> R(1400),   rate |-> Frac(6, 100),  deduction |-> R(0)],
       [inf |-> FALSE, threshold |-> R(5000),   rate |-> Frac(15, 100), deduction |-> R(216)],
       [inf |-> FALSE, threshold |-> R(8800),   rate |-> Frac(24, 100), deduction |-> R(576)],
       [inf |-> FALSE, threshold |-> R(15000),  rate |-> Frac(35, 100), deduction |-> R(1544)],
       [inf |-> FALSE, threshold |-> R(30000),  rate |-> Frac(38, 100), deduction |-> R(1994)],
       [inf |-> FALSE, threshold |-> R(50000),  rate |-> Frac(40, 100), deduction |-> R(2594)],
       [inf |-> FALSE, threshold |-> R(100000), rate |-> Frac(42, 100), deduction |-> R(3594)],
       [inf |-> TRUE,  threshold |-> R(0),      rate |-> Frac(45, 100), deduction |-> R(6594)] >>

\* (threshold, rate, deduction); the last threshold is float('inf').
COMPREHENSIVE_TAX_BRACKETS ==
    << [inf |-> FALSE, threshold |-> R(1400),   rate |-> Frac(6, 100),  deduction |-> R(0)],
       [inf |-> FALSE, threshold |-> R(5000),   rate |-> Frac(15, 100), deduction |-> R(126)],
       [inf |-> FALSE, threshold |-> R(8800),   rate |-> Frac(24, 100), deduction |-> R(576)],
       [inf |-> FALSE, threshold |-> R(15000),  rate |-> Frac(35, 100), deduction |-> R(1544)],
       [inf |-> FALSE, threshold |-> R(30000),  rate |-> Frac(38, 100), deduction |-> R(1994)],
       [inf |-> FALSE, threshold |-> R(50000),  rate |-> Frac(40, 100), deduction |-> R(2594)],
       [inf |-> FALSE, threshold |-> R(100000), rate |-> Frac(42, 100), deduction |-> R(3594)],
       [inf |-> TRUE,  threshold |-> R(0),      rate |-> Frac(45, 100), deduction |-> R(6594)] >>

\* The values of the 'choice' entry: "저율과세", "종합과세", "분리과세", "해당없음".
LOW_RATE == "low_rate"

COMPREHENSIVE == "comprehensive"

SEPARATE == "separate"

NOT_APPLICABLE == "not_applicable"

\* The values of contribution_timing: '연초', '연말'.
START_OF_YEAR == "start_of_year"

END_OF_YEAR == "end_of_year"


---------------------------------------------------------------------------
\* Program state.

VARIABLES
    session_state,              \* st.session_state (the fields the calculation and its validation read)
    user_input_obj,             \* st.session_state.user_input_obj, the UserInput built by the button handler
    errors,                     \* the button handler's local list 'errors'
    pc,                         \* position of the script run
    total_at_retirement,        \* run_payout_simulation's argument
    total_non_deductible_paid,  \* run_payout_simulation's argument
    asset_growth_data,          \* rows of calculate_total_at_retirement's data frame
    non_taxable_wallet,         \* run_payout_simulation's local
    taxable_wallet,             \* run_payout_simulation's local
    year_offset,                \* the payout loop's variable
    annual_breakdown,           \* run_payout_simulation's list of rows
    first_simulation_df,        \* the rows an earlier call returned for the same arguments
    call                        \* a function called on its own: its name, a list of arguments
                                \* and the values returned so far

vars == <<session_state, user_input_obj, errors, pc, total_at_retirement,
          total_non_deductible_paid, asset_growth_data, non_taxable_wallet,
          taxable_wallet, year_offset, annual_breakdown, first_simulation_df, call>>

\* Returns are entered in percent; the model holds them in tenths of a percent.
Percent(tenths) == Frac(tenths, 1000)

---------------------------------------------------------------------------
\* Tax functions, src/app.py.

\* A variant of lines 259-271 without the ceiling of line 271.
get_pension_income_deduction_amount_NoCeiling(pension_income) ==
    IF ~session_state.include_pension_deduction THEN Zero
    ELSE IF RLe(pension_income, R(350)) THEN pension_income
    ELSE IF RLe(pension_income, R(700))
         THEN RAdd(R(350), RMul(RSub(pension_income, R(350)), Frac(4, 10)))
    ELSE IF RLe(pension_income, R(1400))
         THEN RAdd(R(490), RMul(RSub(pension_income, R(700)), Frac(2, 10)))
    ELSE RAdd(R(630), RMul(RSub(pension_income, R(1400)), Frac(1, 10)))

get_pension_income_deduction_amount(pension_income) ==
    IF ~(IF "include_pension_deduction" \in DOMAIN session_state
         THEN session_state.include_pension_deduction ELSE TRUE)
    THEN Zero
    ELSE IF pension_income = Zero THEN Zero
    ELSE IF RLe(pension_income, R(350)) THEN pension_income
    ELSE IF RLe(pension_income, R(700))
         THEN RAdd(R(350), RMul(RSub(pension_income, R(350)), Frac(4, 10)))
    ELSE IF RLe(pension_income, R(1400))
         THEN RAdd(R(490), RMul(RSub(pension_income, R(700)), Frac(2, 10)))
    ELSE RMin(RAdd(R(630), RMul(RSub(pension_income, R(1400)), Frac(1, 10))), R(900))

RECURSIVE BracketTax(_, _)
BracketTax(taxable_income, i) ==
    IF i > Len(COMPREHENSIVE_TAX_BRACKETS) THEN Zero
    ELSE LET b == COMPREHENSIVE_TAX_BRACKETS[i]
         IN  IF b.inf \/ RLe(taxable_income, b.threshold)
             THEN RSub(RMul(taxable_income, b.rate), b.deduction)
             ELSE BracketTax(taxable_income, i + 1)

get_comprehensive_tax(taxable_income, include_local_tax) ==
    IF RLe(taxable_income, Zero) THEN Zero
    ELSE LET tax == BracketTax(taxable_income, 1)
         IN  IF include_local_tax THEN RMul(tax, RAdd(One, LOCAL_TAX_RATE)) ELSE tax

\* A variant of the age bands that puts the ages 70 and 80 in the younger band.
LowRate_EdgesInYoungerBand(current_age) ==
    IF current_age <= 70 THEN PENSION_TAX_RATES.under_70
    ELSE IF current_age <= 80 THEN PENSION_TAX_RATES.under_80
    ELSE PENSION_TAX_RATES.over_80

LowRate(current_age) ==
    IF current_age < 70 THEN PENSION_TAX_RATES.under_70
    ELSE IF current_age < 80 THEN PENSION_TAX_RATES.under_80
    ELSE PENSION_TAX_RATES.over_80

IsLowRate(private_pension_gross) ==
    RLe(private_pension_gross, R(PENSION_TAX_THRESHOLD))

\* A variant of the comparison of line 145 that also takes the tie.
ComprehensiveIsChosen_OnTie(tax_on_private_pension_comp, separate_tax) ==
    RLe(tax_on_private_pension_comp, separate_tax)

ComprehensiveIsChosen(tax_on_private_pension_comp, separate_tax) ==
    RLt(tax_on_private_pension_comp, separate_tax)

\* A variant of lines 145-148 that always takes the comprehensive tax.
ChooseTax_AlwaysComprehensive(tax_on_private_pension_comp, separate_tax) ==
    [chosen |-> tax_on_private_pension_comp,
     comprehensive |-> tax_on_private_pension_comp,
     separate |-> separate_tax, choice |-> COMPREHENSIVE]

\* Lines 141-148: the cheaper of the two, separate taxation on a tie.
ChooseTax(tax_on_private_pension_comp, separate_tax) ==
    IF ComprehensiveIsChosen(tax_on_private_pension_comp, separate_tax)
    THEN [chosen |-> tax_on_private_pension_comp,
          comprehensive |-> tax_on_private_pension_comp,
          separate |-> separate_tax, choice |-> COMPREHENSIVE]
    ELSE [chosen |-> separate_tax,
          comprehensive |-> tax_on_private_pension_comp,
          separate |-> separate_tax, choice |-> SEPARATE]

\* Lines 124-131: the tax on the other income alone.
TaxWithoutPrivatePension(other_pension, other_comprehensive_income) ==
    get_comprehensive_tax(
        RAdd(RSub(other_pension, get_pension_income_deduction_amount(other_pension)),
             other_comprehensive_income),
        TRUE)

\* Lines 117-120, 134-136: the tax on all income, the current private pension included.
TaxWithPrivatePension(total_pension_income_for_comp, other_comprehensive_income) ==
    get_comprehensive_tax(
        RAdd(RSub(total_pension_income_for_comp,
                  get_pension_income_deduction_amount(total_pension_income_for_comp)),
             other_comprehensive_income),
        TRUE)

\* A variant of line 139 that does not take off the tax on the other income.
TaxOnPrivatePensionComp_WholeTax(private_pension_gross, other_pension, other_comprehensive_income) ==
    RMax(Zero,
         TaxWithPrivatePension(RAdd(private_pension_gross, other_pension),
                               other_comprehensive_income))

\* Lines 115-139.
TaxOnPrivatePensionComp(private_pension_gross, other_pension, other_comprehensive_income) ==
    RMax(Zero,
         RSub(TaxWithPrivatePension(RAdd(private_pension_gross, other_pension),
                                    other_comprehensive_income),
              TaxWithoutPrivatePension(other_pension, other_comprehensive_income)))

LowRateTax(tax) ==
    [chosen |-> tax, comprehensive |-> tax, separate |-> tax, choice |-> LOW_RATE]

calculate_annual_pension_tax(private_pension_gross, user_inputs, current_age) ==
    IF IsLowRate(private_pension_gross)
    THEN LowRateTax(RMul(private_pension_gross, LowRate(current_age)))
    ELSE ChooseTax(
             TaxOnPrivatePensionComp(
                 private_pension_gross,
                 RAdd(R(user_inputs.other_private_pension_income),
                      R(user_inputs.public_pension_income)),
                 R(user_inputs.other_comprehensive_income)),
             RMul(private_pension_gross, SEPARATE_TAX_RATE))

\* A variant of lines 305-307 without the test of line 305.
calculate_lump_sum_tax_NoGuard(taxable_lump_sum) ==
    RMul(taxable_lump_sum, OTHER_INCOME_TAX_RATE)

calculate_lump_sum_tax(taxable_lump_sum) ==
    IF RLe(taxable_lump_sum, Zero) THEN Zero
    ELSE RMul(taxable_lump_sum, OTHER_INCOME_TAX_RATE)

---------------------------------------------------------------------------
\* Accumulation, src/app.py calculate_total_at_retirement.

\* A variant of lines 79-84 with the two timings exchanged.
AccumulateYear_TimingSwapped(current_value, inputs) ==
    LET pre_ret_rate == Percent(inputs.pre_retirement_return)
    IN  IF inputs.contribution_timing = START_OF_YEAR
        THEN RAdd(RMul(current_value, RAdd(One, pre_ret_rate)), R(inputs.annual_contribution))
        ELSE RMul(RAdd(current_value, R(inputs.annual_contribution)), RAdd(One, pre_ret_rate))

AccumulateYear(current_value, inputs) ==
    LET pre_ret_rate == Percent(inputs.pre_retirement_return)
    IN  IF inputs.contribution_timing = START_OF_YEAR
        THEN RMul(RAdd(current_value, R(inputs.annual_contribution)), RAdd(One, pre_ret_rate))
        ELSE RAdd(RMul(current_value, RAdd(One, pre_ret_rate)), R(inputs.annual_contribution))

\* A variant of the loop of line 78 that runs its body once before testing.
RECURSIVE AccumulateFrom_BodyFirst(_, _, _, _)
AccumulateFrom_BodyFirst(inputs, year, current_value, data) ==
    LET v == AccumulateYear(current_value, inputs)
        d == Append(data, [year |-> inputs.start_age + year + 1, value |-> v])
    IN  IF year + 1 >= inputs.retirement_age - inputs.start_age
        THEN [value |-> v, data |-> d]
        ELSE AccumulateFrom_BodyFirst(inputs, year + 1, v, d)

RECURSIVE AccumulateFrom(_, _, _, _)
AccumulateFrom(inputs, year, current_value, data) ==
    IF year >= inputs.retirement_age - inputs.start_age
    THEN [value |-> current_value, data |-> data]
    ELSE LET v == AccumulateYear(current_value, inputs)
         IN  AccumulateFrom(inputs, year + 1, v,
                            Append(data, [year |-> inputs.start_age + year + 1, value |-> v]))

calculate_total_at_retirement(inputs) == AccumulateFrom(inputs, 0, Zero, << >>)


---------------------------------------------------------------------------
\* Payout simulation, src/app.py run_payout_simulation: the loop body's steps.

\* Lines 189-191: the present-value factor of an annuity due.
\* A variant of lines 189-191 without the factor (1 + rate) of line 191.
AnnuityFactor_Ordinary(post_ret_rate, remaining_years) ==
    RDiv(RSub(One, RInv(RPow(RAdd(One, post_ret_rate), remaining_years))),
         post_ret_rate)

AnnuityFactor(post_ret_rate, remaining_years) ==
    RMul(RDiv(RSub(One, RInv(RPow(RAdd(One, post_ret_rate), remaining_years))),
              post_ret_rate),
         RAdd(One, post_ret_rate))

\* Line 192.
PayoutByFactor(current_balance, annuity_factor) ==
    IF RLt(Zero, annuity_factor) THEN RDiv(current_balance, annuity_factor) ELSE Zero

\* A variant of lines 181-192 that spreads the balance over one year more.
UnclippedPayout_OneYearMore(post_ret_rate, current_balance, remaining_years) ==
    IF remaining_years <= 0 THEN Zero
    ELSE IF post_ret_rate = Zero THEN RDiv(current_balance, R(remaining_years + 1))
    ELSE IF RLe(post_ret_rate, R(-1)) THEN current_balance
    ELSE PayoutByFactor(current_balance, AnnuityFactor(post_ret_rate, remaining_years))

\* A variant of lines 181-192 without the branch of line 185.
UnclippedPayout_NoTotalLossBranch(post_ret_rate, current_balance, remaining_years) ==
    IF remaining_years <= 0 THEN Zero
    ELSE IF post_ret_rate = Zero THEN RDiv(current_balance, R(remaining_years))
    ELSE RDiv(current_balance, R(remaining_years))

\* Lines 181-192.
UnclippedPayout(post_ret_rate, current_balance, remaining_years) ==
    IF remaining_years <= 0 THEN Zero
    ELSE IF post_ret_rate = Zero THEN RDiv(current_balance, R(remaining_years))
    ELSE IF RLe(post_ret_rate, R(-1)) THEN current_balance
    ELSE PayoutByFactor(current_balance, AnnuityFactor(post_ret_rate, remaining_years))

\* Lines 181-194.
AnnualPayout(post_ret_rate, current_balance, remaining_years) ==
    RMin(UnclippedPayout(post_ret_rate, current_balance, remaining_years), current_balance)

\* A variant of line 197 that leaves half of the non-taxable wallet untouched.
FromNonTaxable_HalfWallet(annual_payout, wallet) ==
    RMin(annual_payout, RMul(wallet, Frac(1, 2)))

FromNonTaxable(annual_payout, wallet) == RMin(annual_payout, wallet)

\* A variant of line 198 that takes the whole payout from the taxable wallet.
FromTaxable_WholePayout(annual_payout, from_non_taxable) == annual_payout

FromTaxable(annual_payout, from_non_taxable) == RSub(annual_payout, from_non_taxable)

PensionPayoutLimit(current_balance, payout_year_count) ==
    RDiv(RMul(current_balance, Frac(12, 10)), R(11 - payout_year_count))

\* A variant of lines 209-212 that taxes the excess but leaves it in the pension income.
OverLimit_ExcessKept(from_taxable, pension_payout_limit) ==
    [pension_payout_under_limit |-> from_taxable,
     tax_on_limit_excess |-> RMul(RSub(from_taxable, pension_payout_limit), OTHER_INCOME_TAX_RATE)]

\* Lines 209-212: the withdrawal from the taxable wallet is over the limit.
OverLimit(from_taxable, pension_payout_limit) ==
    [pension_payout_under_limit |-> pension_payout_limit,
     tax_on_limit_excess |-> RMul(RSub(from_taxable, pension_payout_limit), OTHER_INCOME_TAX_RATE)]

LimitApplies(payout_year_count) == payout_year_count <= 10

\* Lines 202-212: the amount taxed as pension income and the tax on the excess.
LimitSplit(from_taxable, current_balance, payout_year_count) ==
    IF LimitApplies(payout_year_count)
       /\ RLt(PensionPayoutLimit(current_balance, payout_year_count), from_taxable)
    THEN OverLimit(from_taxable, PensionPayoutLimit(current_balance, payout_year_count))
    ELSE [pension_payout_under_limit |-> from_taxable, tax_on_limit_excess |-> Zero]

\* A variant of lines 215-220 without the test of line 215.
PensionTaxInfo_AlwaysCalculated(pension_payout_under_limit, inputs, current_age) ==
    calculate_annual_pension_tax(pension_payout_under_limit, inputs, current_age)

\* Lines 201, 215-220.
PensionTaxInfo(pension_payout_under_limit, inputs, current_age) ==
    IF RLt(Zero, pension_payout_under_limit)
    THEN calculate_annual_pension_tax(pension_payout_under_limit, inputs, current_age)
    ELSE [chosen |-> Zero, comprehensive |-> Zero, separate |-> Zero, choice |-> NOT_APPLICABLE]

\* A variant of lines 227-228 that lets the wallet grow before the withdrawal.
WalletAfter_GrowthFirst(wallet, withdrawn, post_ret_rate) ==
    RSub(RMul(wallet, RAdd(One, post_ret_rate)), withdrawn)

\* Lines 227-228.
WalletAfter(wallet, withdrawn, post_ret_rate) ==
    RMul(RSub(wallet, withdrawn), RAdd(One, post_ret_rate))

\* One iteration of the loop (lines 172-243), as the chain of its assignments: each
\* step takes the record of the locals assigned so far and adds its own.

\* Lines 172, 176-178.
Entering(inputs, ntw, tw, offset) ==
    [inputs |-> inputs,
     post_ret_rate |-> Percent(inputs.post_retirement_return),
     non_taxable_wallet |-> ntw,
     taxable_wallet |-> tw,
     current_balance |-> RAdd(ntw, tw),
     current_age |-> inputs.retirement_age + offset,
     payout_year_count |-> offset + 1,
     remaining_years |-> (inputs.end_age - inputs.retirement_age) - offset]

\* Lines 181-194.
Sized(l) ==
    [annual_payout |-> AnnualPayout(l.post_ret_rate, l.current_balance, l.remaining_years)] @@ l

\* Line 197.
ApportionedNonTaxable(l) ==
    [from_non_taxable |-> FromNonTaxable(l.annual_payout, l.non_taxable_wallet)] @@ l

\* Line 198.
ApportionedTaxable(l) ==
    [from_taxable |-> FromTaxable(l.annual_payout, l.from_non_taxable)] @@ l

\* Lines 202-212.
Limited(l) == LimitSplit(l.from_taxable, l.current_balance, l.payout_year_count) @@ l

\* Lines 201, 215-220.
Taxed(l) ==
    [pension_tax_info |-> PensionTaxInfo(l.pension_payout_under_limit, l.inputs, l.current_age)]
    @@ l

\* Lines 222-223.
Totalled(l) ==
    [pension_tax |-> l.pension_tax_info.chosen,
     total_tax_paid |-> RAdd(l.pension_tax_info.chosen, l.tax_on_limit_excess)] @@ l

\* Lines 224-228.
Updated(l) ==
    [annual_take_home |-> RSub(l.annual_payout, l.total_tax_paid),
     non_taxable_wallet_after |->
         WalletAfter(l.non_taxable_wallet, l.from_non_taxable, l.post_ret_rate),
     taxable_wallet_after |->
         WalletAfter(l.taxable_wallet, l.from_taxable, l.post_ret_rate)] @@ l

\* Lines 231-243: the row appended to annual_breakdown.  'locals' keeps the
\* iteration's local values, which the data frame does not hold.
Row(l) ==
    [age |-> l.current_age,
     annual_payout |-> l.annual_payout,
     annual_take_home |-> l.annual_take_home,
     total_tax_paid |-> l.total_tax_paid,
     pension_tax |-> l.pension_tax,
     tax_on_limit_excess |-> l.tax_on_limit_excess,
     end_balance |-> RAdd(l.non_taxable_wallet_after, l.taxable_wallet_after),
     pension_payout_under_limit |-> l.pension_payout_under_limit,
     comprehensive |-> l.pension_tax_info.comprehensive,
     separate |-> l.pension_tax_info.separate,
     choice |-> l.pension_tax_info.choice,
     locals |-> [current_balance |-> l.current_balance,
                 non_taxable_wallet |-> l.non_taxable_wallet,
                 taxable_wallet |-> l.taxable_wallet,
                 payout_year_count |-> l.payout_year_count,
                 remaining_years |-> l.remaining_years,
                 from_non_taxable |-> l.from_non_taxable,
                 from_taxable |-> l.from_taxable,
                 non_taxable_wallet_after |-> l.non_taxable_wallet_after,
                 taxable_wallet_after |-> l.taxable_wallet_after]]

PayoutYearOf(inputs, ntw, tw, offset) ==
    Updated(Totalled(Taxed(Limited(ApportionedTaxable(ApportionedNonTaxable(
        Sized(Entering(inputs, ntw, tw, offset))))))))

---------------------------------------------------------------------------
\* The result part of the script (src/app.py lines 685-765) and the payout
\* loop, one action per step.

\* The fields of UserInput that the calculation and the validation read.
InputFields ==
    {"start_age", "retirement_age", "end_age", "pre_retirement_return",
     "post_retirement_return", "annual_contribution", "non_deductible_contribution",
     "other_non_deductible_total", "other_private_pension_income",
     "public_pension_income", "other_comprehensive_income", "contribution_timing",
     "include_pension_deduction"}

\* Lines 651-662: the UserInput built from the session.
UserInput(ss) == [f \in InputFields |-> ss[f]]

NoUserInput == [none |-> TRUE]

\* No function is called on its own.
NoCall == [fn |-> "none", args |-> << >>, returned |-> << >>]

\* No earlier call of run_payout_simulation has returned (a call returns one row
\* at least: it is made with a balance above zero, line 704).
NoSimulation == << >>

PayoutYears(inputs) == inputs.end_age - inputs.retirement_age

\* Lines 687-690.
TotalNonDeductiblePaid(ui) ==
    LET contribution_years == ui.retirement_age - ui.start_age
        non_deductible_from_annual == ui.non_deductible_contribution * contribution_years
    IN  R(non_deductible_from_annual + ui.other_non_deductible_total)

\* Lines 702-706 with 164-168: the projection, then the call that seeds the wallets.
StartPayout ==
    /\ pc = "display"
    /\ session_state.calculated
    /\ LET ui == user_input_obj
           acc == calculate_total_at_retirement(ui)
       IN  /\ RLt(Zero, acc.value)
           /\ total_at_retirement' = acc.value
           /\ asset_growth_data' = acc.data
           /\ total_non_deductible_paid' = TotalNonDeductiblePaid(ui)
           /\ non_taxable_wallet' = TotalNonDeductiblePaid(ui)
           /\ taxable_wallet' = RSub(acc.value, TotalNonDeductiblePaid(ui))
    /\ year_offset' = 0
    /\ annual_breakdown' = << >>
    /\ pc' = "loop"
    /\ UNCHANGED <<session_state, user_input_obj, errors, first_simulation_df, call>>

\* Lines 702-704, 764-765: no balance at retirement, a warning and no payout simulation.
NoBalance ==
    /\ pc = "display"
    /\ session_state.calculated
    /\ LET acc == calculate_total_at_retirement(user_input_obj)
       IN  /\ RLe(acc.value, Zero)
           /\ total_at_retirement' = acc.value
           /\ asset_growth_data' = acc.data
    /\ pc' = "no_balance"
    /\ UNCHANGED <<session_state, user_input_obj, errors, total_non_deductible_paid,
                   non_taxable_wallet, taxable_wallet, year_offset, annual_breakdown,
                   first_simulation_df, call>>

\* A variant of line 173 that goes on at a balance of exactly zero.
BalanceUsedUp_BelowZero(current_balance) == RLt(current_balance, Zero)

\* Line 173.
BalanceUsedUp(current_balance) == RLe(current_balance, Zero)

\* Lines 171-243: one iteration of the payout loop.
PayoutYear ==
    /\ pc = "loop"
    /\ year_offset < PayoutYears(user_input_obj)
    /\ ~BalanceUsedUp(RAdd(non_taxable_wallet, taxable_wallet))
    /\ LET l == PayoutYearOf(user_input_obj, non_taxable_wallet, taxable_wallet, year_offset)
       IN  /\ non_taxable_wallet' = l.non_taxable_wallet_after
           /\ taxable_wallet' = l.taxable_wallet_after
           /\ annual_breakdown' = Append(annual_breakdown, Row(l))
    /\ year_offset' = year_offset + 1
    /\ UNCHANGED <<session_state, user_input_obj, errors, pc, total_at_retirement,
                   total_non_deductible_paid, asset_growth_data, first_simulation_df, call>>

\* Lines 172-174: the balance is used up, break.
PayoutBreak ==
    /\ pc = "loop"
    /\ year_offset < PayoutYears(user_input_obj)
    /\ BalanceUsedUp(RAdd(non_taxable_wallet, taxable_wallet))
    /\ pc' = "done"
    /\ UNCHANGED <<session_state, user_input_obj, errors, total_at_retirement,
                   total_non_deductible_paid, asset_growth_data, non_taxable_wallet,
                   taxable_wallet, year_offset, annual_breakdown, first_simulation_df, call>>

\* Lines 171, 244: range(payout_years) is exhausted, return.
PayoutReturn ==
    /\ pc = "loop"
    /\ year_offset >= PayoutYears(user_input_obj)
    /\ pc' = "done"
    /\ UNCHANGED <<session_state, user_input_obj, errors, total_at_retirement,
                   total_non_deductible_paid, asset_growth_data, non_taxable_wallet,
                   taxable_wallet, year_offset, annual_breakdown, first_simulation_df, call>>

---------------------------------------------------------------------------
\* Specification of the calculation on its own: the result part of the script run
\* on a UserInput drawn from bounded sets.  The draw covers the domain of
\* calculate_total_at_retirement and run_payout_simulation, which is wider than what
\* the form lets through (short payouts, a return of -100% or +100%).

MaxPayoutYears == 12

RetirementAges == {60, 69}

MaxShortPayoutYears == 3

PayoutYearChoices == (1 .. MaxShortPayoutYears) \cup (9 .. MaxPayoutYears)

ContributionYearChoices == {1, 5}

PreReturnChoices == {0, 1000}

PostReturnChoices == {-1000, -500, 0, 1000}

TimingChoices == {START_OF_YEAR, END_OF_YEAR}

\* (annual_contribution, non_deductible_contribution, other_non_deductible_total)
ContributionChoices == {<<0, 0, 0>>, <<600, 0, 0>>, <<1800, 1200, 0>>, <<600, 0, 80000>>}

\* (other_private_pension_income, public_pension_income, other_comprehensive_income,
\*  include_pension_deduction)
TaxSituations ==
    {<<0, 0, 0, FALSE>>, <<1000, 0, 0, TRUE>>, <<0, 0, 1400, FALSE>>, <<500, 1200, 3000, TRUE>>}

MakeUserInput(ra, py, cy, pre, post, tm, c, t) ==
    [start_age |-> ra - cy, retirement_age |-> ra, end_age |-> ra + py,
     pre_retirement_return |-> pre, post_retirement_return |-> post,
     annual_contribution |-> c[1], non_deductible_contribution |-> c[2],
     other_non_deductible_total |-> c[3],
     other_private_pension_income |-> t[1], public_pension_income |-> t[2],
     other_comprehensive_income |-> t[3], contribution_timing |-> tm,
     include_pension_deduction |-> t[4]]

\* At +100% the payout is balance * 2^(n-1) / (2^n - 1), and a wallet below zero
\* doubles in size every year: a positive return is drawn only with a short payout
\* and no wallet below zero, so that every numerator stays within TLC's 32-bit
\* integers.
UserInputs ==
    { MakeUserInput(q[1], q[2], q[3], q[4], q[5], q[6], q[7], q[8]) :
        q \in { p \in RetirementAges \X PayoutYearChoices \X ContributionYearChoices
                      \X PreReturnChoices \X PostReturnChoices \X TimingChoices
                      \X ContributionChoices \X TaxSituations :
                p[5] > 0 => (p[7][3] = 0 /\ p[2] <= MaxShortPayoutYears) } }

\* The session from which the button handler built ui.
SessionOf(ui) ==
    [f \in InputFields \cup {"auto_calc_non_deductible", "investment_profile",
                             "calculated", "has_calculated_once"} |->
        IF f \in InputFields THEN ui[f]
        ELSE IF f = "auto_calc_non_deductible" THEN FALSE
        ELSE IF f = "investment_profile" THEN "direct"
        ELSE TRUE]

Init ==
    /\ user_input_obj \in UserInputs
    /\ session_state = SessionOf(user_input_obj)
    /\ errors = << >>
    /\ pc = "display"
    /\ total_at_retirement = Zero
    /\ total_non_deductible_paid = Zero
    /\ asset_growth_data = << >>
    /\ non_taxable_wallet = Zero
    /\ taxable_wallet = Zero
    /\ year_offset = 0
    /\ annual_breakdown = << >>
    /\ first_simulation_df = NoSimulation
    /\ call = NoCall

Next == StartPayout \/ NoBalance \/ PayoutYear \/ PayoutBreak \/ PayoutReturn

Spec == Init /\ [][Next]_vars

---------------------------------------------------------------------------
\* Specification of run_payout_simulation called twice with the same arguments.
\* The function reads st.session_state (line 259, through
\* calculate_annual_pension_tax), which is no argument of it: between the two
\* calls the session may be written by other code of the process.

\* Line 706, a second time: the rows of the first call are kept and the
\* simulation starts again from the same inputs, total_at_retirement and
\* total_non_deductible_paid (lines 163-168).
CallAgain ==
    /\ pc = "done"
    /\ first_simulation_df = NoSimulation
    /\ first_simulation_df' = annual_breakdown
    /\ non_taxable_wallet' = total_non_deductible_paid
    /\ taxable_wallet' = RSub(total_at_retirement, total_non_deductible_paid)
    /\ year_offset' = 0
    /\ annual_breakdown' = << >>
    /\ pc' = "loop"
    /\ UNCHANGED <<session_state, user_input_obj, errors, total_at_retirement,
                   total_non_deductible_paid, asset_growth_data, call>>

\* st.session_state.include_pension_deduction is written between the two calls.
SessionWritten ==
    /\ pc = "done"
    /\ first_simulation_df = NoSimulation
    /\ session_state.include_pension_deduction = user_input_obj.include_pension_deduction
    /\ session_state' = [session_state EXCEPT !.include_pension_deduction = ~@]
    /\ UNCHANGED <<user_input_obj, errors, pc, total_at_retirement,
                   total_non_deductible_paid, asset_growth_data, non_taxable_wallet,
                   taxable_wallet, year_offset, annual_breakdown, first_simulation_df, call>>

NextTwice ==
    \/ StartPayout
    \/ NoBalance
    \/ PayoutYear
    \/ PayoutBreak
    \/ PayoutReturn
    \/ CallAgain
    \/ SessionWritten

SpecTwice == Init /\ [][NextTwice]_vars

---------------------------------------------------------------------------
\* Specification of the form: the sidebar widgets with their callbacks and the
\* button handler (src/app.py lines 497-682), followed by the result part of the
\* script.  A widget is changed or the button is pressed only between script runs.
\* The investment profile stays on direct input.

\* Line 497-499.
reset_calculation_state(ss) == [ss EXCEPT !.calculated = FALSE]

\* Lines 510-521.
auto_calculate_non_deductible(ss) ==
    reset_calculation_state(
        [ss EXCEPT !.non_deductible_contribution =
            IF ss.auto_calc_non_deductible
            THEN IF ss.annual_contribution - PENSION_SAVING_TAX_CREDIT_LIMIT > 0
                 THEN ss.annual_contribution - PENSION_SAVING_TAX_CREDIT_LIMIT
                 ELSE 0
            ELSE 0])

\* Lines 523-535.
update_retirement_age_and_end_age(ss) ==
    IF ss.end_age < ss.retirement_age + MIN_PAYOUT_YEARS
    THEN [reset_calculation_state(ss) EXCEPT !.end_age = ss.retirement_age + MIN_PAYOUT_YEARS]
    ELSE reset_calculation_state(ss)

\* A variant of lines 537-542 that leaves the calculation state as it is.
toggle_pension_deduction_NoReset(ss) == ss

\* Lines 537-542.
toggle_pension_deduction(ss) == reset_calculation_state(ss)

\* Lines 666-673: the messages of the validation, in the order of the checks.
ValidationErrors(ui) ==
    (IF ~(ui.start_age < ui.retirement_age /\ ui.retirement_age < ui.end_age)
     THEN <<"age_order">> ELSE << >>)
    \o (IF ui.retirement_age < MIN_RETIREMENT_AGE THEN <<"min_retirement_age">> ELSE << >>)
    \o (IF ui.retirement_age - ui.start_age < MIN_CONTRIBUTION_YEARS
        THEN <<"min_contribution_years">> ELSE << >>)
    \o (IF ui.end_age - ui.retirement_age < MIN_PAYOUT_YEARS
        THEN <<"min_payout_years">> ELSE << >>)
    \o (IF ui.annual_contribution > MAX_CONTRIBUTION_LIMIT
        THEN <<"max_contribution">> ELSE << >>)
    \o (IF ui.non_deductible_contribution > ui.annual_contribution
        THEN <<"non_deductible_over_contribution">> ELSE << >>)

\* The script is not running: it ran to its end.
BetweenRuns == pc \in {"idle", "done", "no_balance"}

\* A script run starts: the locals of the run before are gone.
NewRun ==
    /\ errors' = << >>
    /\ total_at_retirement' = Zero
    /\ total_non_deductible_paid' = Zero
    /\ asset_growth_data' = << >>
    /\ non_taxable_wallet' = Zero
    /\ taxable_wallet' = Zero
    /\ year_offset' = 0
    /\ annual_breakdown' = << >>
    /\ first_simulation_df' = NoSimulation
    /\ UNCHANGED call

\* The script run after a callback: the button is not pressed and, calculated
\* being False (line 685), nothing is displayed.
RunAfterCallback(ss) ==
    /\ session_state' = ss
    /\ NewRun
    /\ pc' = "idle"
    /\ UNCHANGED user_input_obj

StartAgeChoices == {50, 56}

RetirementAgeChoices == {55, 56}

EndAgeChoices == {65, 66}

AnnualContributionChoices == {0, 600, 1800}

NonDeductibleChoices == {0, 1200}

\* Line 586.
StartAgeChanged ==
    /\ BetweenRuns
    /\ \E v \in StartAgeChoices \ {session_state.start_age} :
          RunAfterCallback(reset_calculation_state([session_state EXCEPT !.start_age = v]))

\* Line 587.
RetirementAgeChanged ==
    /\ BetweenRuns
    /\ \E v \in RetirementAgeChoices \ {session_state.retirement_age} :
          RunAfterCallback(
              update_retirement_age_and_end_age([session_state EXCEPT !.retirement_age = v]))

\* Line 588.
EndAgeChanged ==
    /\ BetweenRuns
    /\ \E v \in EndAgeChoices \ {session_state.end_age} :
          RunAfterCallback(reset_calculation_state([session_state EXCEPT !.end_age = v]))

\* Line 605.
AnnualContributionChanged ==
    /\ BetweenRuns
    /\ \E v \in AnnualContributionChoices \ {session_state.annual_contribution} :
          RunAfterCallback(
              auto_calculate_non_deductible([session_state EXCEPT !.annual_contribution = v]))

\* Line 607.
AutoCalcToggled ==
    /\ BetweenRuns
    /\ RunAfterCallback(
          auto_calculate_non_deductible(
              [session_state EXCEPT !.auto_calc_non_deductible = ~@]))

\* Line 609: the widget is disabled while the amount is calculated automatically.
NonDeductibleChanged ==
    /\ BetweenRuns
    /\ ~session_state.auto_calc_non_deductible
    /\ \E v \in NonDeductibleChoices \ {session_state.non_deductible_contribution} :
          RunAfterCallback(
              reset_calculation_state([session_state EXCEPT !.non_deductible_contribution = v]))

\* Lines 623-628.
PensionDeductionToggled ==
    /\ BetweenRuns
    /\ RunAfterCallback(
          toggle_pension_deduction([session_state EXCEPT !.include_pension_deduction = ~@]))

\* Lines 649-682: the button handler.
Button ==
    /\ BetweenRuns
    /\ user_input_obj' = UserInput(session_state)
    /\ errors' = ValidationErrors(UserInput(session_state))
    /\ total_at_retirement' = Zero
    /\ total_non_deductible_paid' = Zero
    /\ asset_growth_data' = << >>
    /\ non_taxable_wallet' = Zero
    /\ taxable_wallet' = Zero
    /\ year_offset' = 0
    /\ annual_breakdown' = << >>
    /\ first_simulation_df' = NoSimulation
    /\ UNCHANGED call
    /\ IF ValidationErrors(UserInput(session_state)) # << >>
       THEN /\ session_state' = [session_state EXCEPT !.calculated = FALSE]
            /\ pc' = "idle"
       ELSE /\ session_state' = [session_state EXCEPT !.calculated = TRUE,
                                                      !.has_calculated_once = TRUE]
            /\ pc' = "display"

\* Lines 545-576 and a first setting of the widgets: direct input of the returns,
\* both at 0, and the shortest contribution and payout periods the form accepts.
InitialSession ==
    [start_age |-> 50, retirement_age |-> 55, end_age |-> 65,
     pre_retirement_return |-> 0, post_retirement_return |-> 0,
     annual_contribution |-> 600, non_deductible_contribution |-> 0,
     other_non_deductible_total |-> 0, other_private_pension_income |-> 0,
     public_pension_income |-> 0, other_comprehensive_income |-> 0,
     contribution_timing |-> END_OF_YEAR, include_pension_deduction |-> FALSE,
     auto_calc_non_deductible |-> TRUE, investment_profile |-> "direct",
     calculated |-> FALSE, has_calculated_once |-> FALSE]

InitApp ==
    /\ session_state = InitialSession
    /\ user_input_obj = NoUserInput
    /\ errors = << >>
    /\ pc = "idle"
    /\ total_at_retirement = Zero
    /\ total_non_deductible_paid = Zero
    /\ asset_growth_data = << >>
    /\ non_taxable_wallet = Zero
    /\ taxable_wallet = Zero
    /\ year_offset = 0
    /\ annual_breakdown = << >>
    /\ first_simulation_df = NoSimulation
    /\ call = NoCall

\* With a return above -100%, all the form lets through, every year but the last
\* withdraws less than the balance: the break of line 173 (PayoutBreak) is never
\* taken in a run that starts from the form, and is left out.
NextApp ==
    \/ StartAgeChanged
    \/ RetirementAgeChanged
    \/ EndAgeChanged
    \/ AnnualContributionChanged
    \/ AutoCalcToggled
    \/ NonDeductibleChanged
    \/ PensionDeductionToggled
    \/ Button
    \/ StartPayout
    \/ NoBalance
    \/ PayoutYear
    \/ PayoutReturn

SpecApp == InitApp /\ [][NextApp]_vars

---------------------------------------------------------------------------
\* Specification of the functions called on their own: a function is applied to
\* each tuple of a list of arguments drawn from bounded sets, one application per
\* step.  get_pension_income_deduction_amount reads the session (line 259), which
\* is drawn with the arguments.

\* Lines 424-426 of display_present_value_analysis: the lump sum after tax.
LumpSum(total, non_deductible_paid) ==
    [taxable_lump_sum |-> RSub(total, non_deductible_paid),
     lump_sum_tax |-> calculate_lump_sum_tax(RSub(total, non_deductible_paid)),
     lump_sum_take_home |->
         RSub(total, calculate_lump_sum_tax(RSub(total, non_deductible_paid)))]

\* Everything but 'call'.
script_vars ==
    <<session_state, user_input_obj, errors, pc, total_at_retirement,
      total_non_deductible_paid, asset_growth_data, non_taxable_wallet,
      taxable_wallet, year_offset, annual_breakdown, first_simulation_df>>

MaxTaxableIncome == 200000

MaxPensionIncome == 10000

\* The edges of the brackets of COMPREHENSIVE_TAX_BRACKETS, one unit to each side.
TaxableIncomes ==
    {-1, 0, 1, MaxTaxableIncome}
    \cup { COMPREHENSIVE_TAX_BRACKETS[i].threshold[1] + d :
             i \in 1 .. Len(COMPREHENSIVE_TAX_BRACKETS) - 1, d \in {-1, 0, 1} }

\* The edges of the tiers of the pension income deduction and the income at which
\* its ceiling is reached, one unit to each side.
PensionIncomes ==
    {0, 1, MaxPensionIncome} \cup { e + d : e \in {350, 700, 1400, 4100}, d \in {-1, 0, 1} }

LumpSumArguments == {0, 3000, 9000} \X {0, 3000, 6000, 80000}

AccumulationInputs ==
    { MakeUserInput(60, 10, q[1], q[2], 0, q[3], <<q[4], 0, 0>>, <<0, 0, 0, FALSE>>) :
        q \in {0, 1, 2, 3} \X {-500, 0, 1000} \X TimingChoices \X {0, 600, 1800} }

\* The command-line program, src/main.py.

\* A variant of the table of src/main.py whose deductions lack the factor 1.1.
COMPREHENSIVE_TAX_BRACKETS_main_PlainDeductions ==
    << [inf |-> FALSE, threshold |-> R(1400),   rate |-> Frac(66, 1000),  deduction |-> R(0)],
       [inf |-> FALSE, threshold |-> R(5000),   rate |-> Frac(165, 1000), deduction |-> R(126)],
       [inf |-> FALSE, threshold |-> R(8800),   rate |-> Frac(264, 1000), deduction |-> R(576)],
       [inf |-> FALSE, threshold |-> R(15000),  rate |-> Frac(385, 1000), deduction |-> R(1544)],
       [inf |-> FALSE, threshold |-> R(30000),  rate |-> Frac(418, 1000), deduction |-> R(1994)],
       [inf |-> FALSE, threshold |-> R(50000),  rate |-> Frac(440, 1000), deduction |-> R(2594)],
       [inf |-> FALSE, threshold |-> R(100000), rate |-> Frac(462, 1000), deduction |-> R(3594)],
       [inf |-> TRUE,  threshold |-> R(0),      rate |-> Frac(495, 1000), deduction |-> R(6594)] >>

\* src/main.py, lines 16-25: rates and deductions with the local tax built in.
COMPREHENSIVE_TAX_BRACKETS_main ==
    << [inf |-> FALSE, threshold |-> R(1400),   rate |-> Frac(66, 1000),
        deduction |-> R(0)],
       [inf |-> FALSE, threshold |-> R(5000),   rate |-> Frac(165, 1000),
        deduction |-> RMul(R(126), Frac(11, 10))],
       [inf |-> FALSE, threshold |-> R(8800),   rate |-> Frac(264, 1000),
        deduction |-> RMul(R(576), Frac(11, 10))],
       [inf |-> FALSE, threshold |-> R(15000),  rate |-> Frac(385, 1000),
        deduction |-> RMul(R(1544), Frac(11, 10))],
       [inf |-> FALSE, threshold |-> R(30000),  rate |-> Frac(418, 1000),
        deduction |-> RMul(R(1994), Frac(11, 10))],
       [inf |-> FALSE, threshold |-> R(50000),  rate |-> Frac(440, 1000),
        deduction |-> RMul(R(2594), Frac(11, 10))],
       [inf |-> FALSE, threshold |-> R(100000), rate |-> Frac(462, 1000),
        deduction |-> RMul(R(3594), Frac(11, 10))],
       [inf |-> TRUE,  threshold |-> R(0),      rate |-> Frac(495, 1000),
        deduction |-> RMul(R(6594), Frac(11, 10))] >>

\* src/main.py, lines 113-116: the loop over the table and the return after it.
RECURSIVE BracketTax_main(_, _)
BracketTax_main(taxable_income, i) ==
    IF i > Len(COMPREHENSIVE_TAX_BRACKETS_main) THEN Zero
    ELSE LET b == COMPREHENSIVE_TAX_BRACKETS_main[i]
         IN  IF b.inf \/ RLe(taxable_income, b.threshold)
             THEN RSub(RMul(taxable_income, b.rate), b.deduction)
             ELSE BracketTax_main(taxable_income, i + 1)

\* src/main.py, lines 110-116.
calculate_comprehensive_tax(taxable_income) ==
    IF RLe(taxable_income, Zero) THEN Zero ELSE BracketTax_main(taxable_income, 1)

\* src/main.py, lines 98-107.
calculate_pension_income_deduction(pension_income) ==
    IF RLe(pension_income, R(350)) THEN pension_income
    ELSE IF RLe(pension_income, R(700))
         THEN RAdd(R(350), RMul(RSub(pension_income, R(350)), Frac(4, 10)))
    ELSE IF RLe(pension_income, R(1400))
         THEN RAdd(R(490), RMul(RSub(pension_income, R(700)), Frac(2, 10)))
    ELSE RMin(RAdd(R(630), RMul(RSub(pension_income, R(1400)), Frac(1, 10))), R(900))

Calls ==
    { [fn |-> "calculate_comprehensive_tax",
       args |-> << <<R(x)>> >>,
       returned |-> << >>] : x \in TaxableIncomes }
    \cup
    { [fn |-> "calculate_pension_income_deduction",
       args |-> << <<R(x)>> >>,
       returned |-> << >>] : x \in PensionIncomes }
    \cup
    { [fn |-> "get_comprehensive_tax",
       args |-> << <<R(q[1]), q[3]>>, <<R(q[2]), q[3]>> >>,
       returned |-> << >>] : q \in TaxableIncomes \X TaxableIncomes \X BOOLEAN }
    \cup
    { [fn |-> "get_pension_income_deduction_amount",
       args |-> << <<R(q[1])>>, <<R(q[2])>> >>,
       returned |-> << >>] : q \in PensionIncomes \X PensionIncomes }
    \cup
    { [fn |-> "calculate_lump_sum_tax",
       args |-> << <<R(q[1]), R(q[2])>> >>,
       returned |-> << >>] : q \in LumpSumArguments }
    \cup
    { [fn |-> "calculate_total_at_retirement",
       args |-> << <<u>> >>,
       returned |-> << >>] : u \in AccumulationInputs }

\* The next tuple of arguments of the call of fn, if there is one.
Calling(fn) == call.fn = fn /\ Len(call.returned) < Len(call.args)

NextArguments == call.args[Len(call.returned) + 1]

Returns(value) ==
    /\ call' = [call EXCEPT !.returned = Append(@, value)]
    /\ UNCHANGED script_vars

CallGetComprehensiveTax ==
    /\ Calling("get_comprehensive_tax")
    /\ Returns(get_comprehensive_tax(NextArguments[1], NextArguments[2]))

CallGetPensionIncomeDeductionAmount ==
    /\ Calling("get_pension_income_deduction_amount")
    /\ Returns(get_pension_income_deduction_amount(NextArguments[1]))

CallCalculateLumpSumTax ==
    /\ Calling("calculate_lump_sum_tax")
    /\ Returns(LumpSum(NextArguments[1], NextArguments[2]))

CallCalculateTotalAtRetirement ==
    /\ Calling("calculate_total_at_retirement")
    /\ Returns(calculate_total_at_retirement(NextArguments[1]))

CallCalculateComprehensiveTax ==
    /\ Calling("calculate_comprehensive_tax")
    /\ Returns(calculate_comprehensive_tax(NextArguments[1]))

CallCalculatePensionIncomeDeduction ==
    /\ Calling("calculate_pension_income_deduction")
    /\ Returns(calculate_pension_income_deduction(NextArguments[1]))

InitCalls ==
    /\ call \in Calls
    /\ \E b \in BOOLEAN :
          session_state = [InitialSession EXCEPT !.include_pension_deduction = b]
    /\ user_input_obj = NoUserInput
    /\ errors = << >>
    /\ pc = "idle"
    /\ total_at_retirement = Zero
    /\ total_non_deductible_paid = Zero
    /\ asset_growth_data = << >>
    /\ non_taxable_wallet = Zero
    /\ taxable_wallet = Zero
    /\ year_offset = 0
    /\ annual_breakdown = << >>
    /\ first_simulation_df = << >>

NextCalls ==
    \/ CallGetComprehensiveTax
    \/ CallGetPensionIncomeDeductionAmount
    \/ CallCalculateLumpSumTax
    \/ CallCalculateTotalAtRetirement
    \/ CallCalculateComprehensiveTax
    \/ CallCalculatePensionIncomeDeduction

SpecCalls == InitCalls /\ [][NextCalls]_vars


---------------------------------------------------------------------------
\* Properties of the payout simulation (specification Spec).

\* The input invariants of the data model: ages in order, no negative amount, the
\* non-deductible contribution no more than the contribution, returns above -100%.
SatisfiesInputInvariants(ui) ==
    /\ ui.start_age < ui.retirement_age
    /\ ui.retirement_age < ui.end_age
    /\ ui.annual_contribution >= 0
    /\ ui.non_deductible_contribution >= 0
    /\ ui.other_non_deductible_total >= 0
    /\ ui.other_private_pension_income >= 0
    /\ ui.public_pension_income >= 0
    /\ ui.other_comprehensive_income >= 0
    /\ ui.non_deductible_contribution <= ui.annual_contribution
    /\ ui.pre_retirement_return > -1000
    /\ ui.post_retirement_return > -1000

InPayout == pc \in {"loop", "done"}

RowIndices == 1 .. Len(annual_breakdown)

PostRetRate == Percent(user_input_obj.post_retirement_return)

\* C1: for every input that satisfies the input invariants, the tax-free wallet and
\* the taxable wallet are both >= 0 when they are seeded and after every payout year.
C1_WalletsNeverNegative ==
    (InPayout /\ SatisfiesInputInvariants(user_input_obj))
        => (RLe(Zero, non_taxable_wallet) /\ RLe(Zero, taxable_wallet))

\* The pension income other than the current withdrawal: other private pensions
\* and the public pension.
OtherPensionIncome ==
    RAdd(R(user_input_obj.other_private_pension_income),
         R(user_input_obj.public_pension_income))

\* C2: the resolver selects the low rate exactly when the within-limit withdrawal
\* plus the other pension income is <= PENSION_TAX_THRESHOLD.
C2_LowRateIffTotalWithinThreshold ==
    \A i \in RowIndices :
        annual_breakdown[i].choice # NOT_APPLICABLE
            => (annual_breakdown[i].choice = LOW_RATE
                <=> RLe(RAdd(annual_breakdown[i].pension_payout_under_limit, OtherPensionIncome),
                        R(PENSION_TAX_THRESHOLD)))

\* C3: in a year whose within-limit withdrawal is above the threshold the chosen
\* tax is the smaller of the comprehensive and the separate tax, comprehensive
\* taxation is chosen only when its tax is strictly lower, and a tie goes to
\* separate taxation.
C3_CheaperModeTieToSeparate ==
    \A i \in RowIndices :
        RLt(R(PENSION_TAX_THRESHOLD), annual_breakdown[i].pension_payout_under_limit)
            => /\ annual_breakdown[i].choice \in {COMPREHENSIVE, SEPARATE}
               /\ annual_breakdown[i].pension_tax
                    = RMin(annual_breakdown[i].comprehensive, annual_breakdown[i].separate)
               /\ annual_breakdown[i].choice = COMPREHENSIVE
                    <=> RLt(annual_breakdown[i].comprehensive, annual_breakdown[i].separate)
               /\ annual_breakdown[i].comprehensive = annual_breakdown[i].separate
                    => annual_breakdown[i].choice = SEPARATE

\* A year above the threshold in which both taxes are equal, taxed separately.
C3_Witness ==
    \E i \in RowIndices :
        /\ RLt(R(PENSION_TAX_THRESHOLD), annual_breakdown[i].pension_payout_under_limit)
        /\ annual_breakdown[i].comprehensive = annual_breakdown[i].separate
        /\ annual_breakdown[i].choice = SEPARATE
        /\ RLt(Zero, annual_breakdown[i].pension_tax)

\* The statutory limit of payout year y on the balance entering it.
C4_Limit(row) ==
    RDiv(RMul(row.locals.current_balance, Frac(6, 5)), R(11 - row.locals.payout_year_count))

C4_RowOk(row) ==
    IF row.locals.payout_year_count <= 10
    THEN /\ row.pension_payout_under_limit = RMin(row.locals.from_taxable, C4_Limit(row))
         /\ row.tax_on_limit_excess
              = RMul(RSub(row.locals.from_taxable, row.pension_payout_under_limit),
                     Frac(165, 1000))
    ELSE /\ row.pension_payout_under_limit = row.locals.from_taxable
         /\ row.tax_on_limit_excess = Zero

\* C4: in payout years 1..10 the within-limit amount is min(fromTaxable, limit) with
\* limit = balance * 1.2 / (11 - year) and the excess is taxed at 16.5%; from year
\* 11 on no limit applies: the whole taxable withdrawal is within the limit and the
\* excess tax is 0.
C4_WithdrawalLimit == \A i \in RowIndices : C4_RowOk(annual_breakdown[i])

\* A ledger with a year over its limit.
C4_Witness ==
    \E i \in RowIndices :
        /\ annual_breakdown[i].locals.payout_year_count <= 10
        /\ RLt(Zero, annual_breakdown[i].tax_on_limit_excess)
        /\ RLt(annual_breakdown[i].pension_payout_under_limit,
               annual_breakdown[i].locals.from_taxable)


\* The ledger has at most N rows of consecutive ages, each for a year entered with
\* a balance above zero, and is short only when the balance ran out.
C5_Ledger ==
    /\ Len(annual_breakdown) <= PayoutYears(user_input_obj)
    /\ \A i \in RowIndices :
          /\ annual_breakdown[i].age = user_input_obj.retirement_age + (i - 1)
          /\ RLt(Zero, annual_breakdown[i].locals.current_balance)
    /\ (pc = "done" /\ Len(annual_breakdown) < PayoutYears(user_input_obj))
          => RLe(RAdd(non_taxable_wallet, taxable_wallet), Zero)

\* A step of the loop ends it or moves on to the next of its N years: the years
\* left to simulate go down with every iteration.
C5_LoopStep ==
    \/ pc' = "done"
    \/ /\ pc' = "loop"
       /\ year_offset' = year_offset + 1
       /\ year_offset' <= PayoutYears(user_input_obj)
       /\ Len(annual_breakdown') = year_offset'

\* C5: the payout simulation always terminates, with a ledger of at most
\* N = end_age - retirement_age rows whose ages are consecutive from the retirement
\* age; the ledger has fewer than N rows only when the balance entering some year
\* is <= 0, and no row is emitted for or after such a year.
C5_TerminatesWithBoundedLedger ==
    /\ [](InPayout => C5_Ledger)
    /\ [][pc = "loop" => C5_LoopStep]_vars

\* A simulation that ended early, after at least one year.
C5_Witness ==
    /\ pc = "done"
    /\ Len(annual_breakdown) >= 1
    /\ Len(annual_breakdown) < PayoutYears(user_input_obj)
    /\ RAdd(non_taxable_wallet, taxable_wallet) = Zero

\* C6: with a post-retirement return of 0 every year's withdrawal is the entering
\* balance divided by the remaining years, the finished ledger has exactly N rows
\* and its last row leaves a balance of 0.
C6_StraightLineDepletion ==
    (InPayout /\ user_input_obj.post_retirement_return = 0)
        => /\ \A i \in RowIndices :
                 annual_breakdown[i].annual_payout
                     = RDiv(annual_breakdown[i].locals.current_balance,
                            R(annual_breakdown[i].locals.remaining_years))
           /\ pc = "done"
                 => /\ Len(annual_breakdown) = PayoutYears(user_input_obj)
                    /\ annual_breakdown[Len(annual_breakdown)].end_balance = Zero

\* A finished straight-line ledger of nine years or more.
C6_Witness ==
    /\ pc = "done"
    /\ user_input_obj.post_retirement_return = 0
    /\ Len(annual_breakdown) = PayoutYears(user_input_obj)
    /\ Len(annual_breakdown) >= 9
    /\ annual_breakdown[1].annual_payout
         = RDiv(total_at_retirement, R(PayoutYears(user_input_obj)))
    /\ annual_breakdown[Len(annual_breakdown)].end_balance = Zero

\* C7: with a post-retirement return >= 0 the end-of-year balances of consecutive
\* rows never increase, and no row's end-of-year balance is above the balance
\* entering its year.
C7_BalancesNonIncreasing ==
    (InPayout /\ user_input_obj.post_retirement_return >= 0)
        => \A i \in RowIndices :
              /\ RLe(annual_breakdown[i].end_balance, annual_breakdown[i].locals.current_balance)
              /\ i > 1 => RLe(annual_breakdown[i].end_balance, annual_breakdown[i - 1].end_balance)

\* A ledger under a positive return whose balance went down two years running.
C7_Witness ==
    /\ user_input_obj.post_retirement_return > 0
    /\ Len(annual_breakdown) >= 2
    /\ RLt(annual_breakdown[1].end_balance, annual_breakdown[1].locals.current_balance)
    /\ RLt(annual_breakdown[2].end_balance, annual_breakdown[1].end_balance)

C8_RowOk(row) ==
    /\ RAdd(row.locals.non_taxable_wallet_after, row.locals.taxable_wallet_after)
         = RMul(RSub(row.locals.current_balance, row.annual_payout), RAdd(One, PostRetRate))
    /\ row.end_balance
         = RAdd(row.locals.non_taxable_wallet_after, row.locals.taxable_wallet_after)
    /\ RAdd(row.locals.from_non_taxable, row.locals.from_taxable) = row.annual_payout

\* C8: after each payout year the two wallets add up to
\* (entering balance - withdrawal) * (1 + post-retirement return), and that sum is
\* the end-of-year balance of the year's row.
C8_WalletSumIsEndBalance ==
    /\ \A i \in RowIndices : C8_RowOk(annual_breakdown[i])
    /\ (InPayout /\ Len(annual_breakdown) >= 1)
          => /\ non_taxable_wallet
                  = annual_breakdown[Len(annual_breakdown)].locals.non_taxable_wallet_after
             /\ taxable_wallet
                  = annual_breakdown[Len(annual_breakdown)].locals.taxable_wallet_after

\* A year that drew on both wallets under a return other than 0.
C8_Witness ==
    \E i \in RowIndices :
        /\ user_input_obj.post_retirement_return # 0
        /\ RLt(Zero, annual_breakdown[i].locals.from_non_taxable)
        /\ RLt(Zero, annual_breakdown[i].locals.from_taxable)
        /\ RLt(Zero, annual_breakdown[i].end_balance)


---------------------------------------------------------------------------
\* Properties of the form (specification SpecApp).

\* Input the specification calls invalid: ages out of order, no contribution above
\* zero, a non-deductible contribution above the contribution, a return of -100% or less.
InvalidInput(ui) ==
    \/ ~(ui.start_age < ui.retirement_age /\ ui.retirement_age < ui.end_age)
    \/ ui.annual_contribution <= 0
    \/ ui.non_deductible_contribution > ui.annual_contribution
    \/ ui.pre_retirement_return <= -1000
    \/ ui.post_retirement_return <= -1000

\* The result part of the script has run the projection on the stored input.
ProjectionExecuted == pc \in {"no_balance", "loop", "done"}

\* C9: invalid input is rejected before any simulation step runs: the button
\* handler does not accept it (calculated stays False) and neither the accumulation
\* projection nor the payout simulation is executed on it.
C9_InvalidInputRejected ==
    (user_input_obj # NoUserInput /\ InvalidInput(user_input_obj))
        => /\ ~session_state.calculated
           /\ ~ProjectionExecuted


---------------------------------------------------------------------------
\* Properties of repeated calls (specification SpecTwice).

SecondCallReturned == pc = "done" /\ first_simulation_df # NoSimulation

\* C11: two calls of run_payout_simulation with the same UserInput, balance at
\* retirement and non-deductible total return identical ledgers.
C11_SameArgumentsSameLedger ==
    SecondCallReturned => annual_breakdown = first_simulation_df


---------------------------------------------------------------------------
\* Properties of the functions called on their own (specification SpecCalls).

Returned(fn) == call.fn = fn /\ Len(call.returned) = Len(call.args)

\* C12: get_comprehensive_tax returns 0 for every taxable income <= 0 and is
\* non-decreasing in the taxable income over the bracket table, across every
\* bracket edge, with and without the local tax.
C12_ComprehensiveTaxMonotone ==
    call.fn = "get_comprehensive_tax"
        => /\ \A i \in 1 .. Len(call.returned) :
                 RLe(call.args[i][1], Zero) => call.returned[i] = Zero
           /\ (Len(call.returned) = 2 /\ RLe(call.args[1][1], call.args[2][1]))
                 => RLe(call.returned[1], call.returned[2])

\* The two sides of a bracket edge, 14,000,000 and 14,010,000, with the local tax.
C12_Witness ==
    /\ Returned("get_comprehensive_tax")
    /\ call.args[1] = <<R(1400), TRUE>>
    /\ call.args[2] = <<R(1401), TRUE>>
    /\ call.returned[1] = Frac(924, 10)
    /\ RLt(call.returned[1], call.returned[2])

\* C13: the pension income deduction is non-decreasing in the pension income over
\* its four tiers and across their edges, never above the income and never above
\* the ceiling of 9,000,000.
C13_PensionDeductionMonotoneBounded ==
    call.fn = "get_pension_income_deduction_amount"
        => /\ \A i \in 1 .. Len(call.returned) :
                 /\ RLe(call.returned[i], call.args[i][1])
                 /\ RLe(call.returned[i], R(900))
           /\ (Len(call.returned) = 2 /\ RLe(call.args[1][1], call.args[2][1]))
                 => RLe(call.returned[1], call.returned[2])

\* With the deduction included: an income on the top tier below the ceiling, and
\* one at the ceiling.
C13_Witness ==
    /\ Returned("get_pension_income_deduction_amount")
    /\ session_state.include_pension_deduction
    /\ call.args[1] = <<R(1401)>>
    /\ call.args[2] = <<R(MaxPensionIncome)>>
    /\ call.returned[1] = Frac(6301, 10)
    /\ call.returned[2] = R(900)

\* C14: with no contribution year (retirement_age = start_age),
\* calculate_total_at_retirement returns the balance 0 and an empty series, for
\* either timing, any contribution and any return before retirement.
C14_NoContributionYears ==
    (/\ Returned("calculate_total_at_retirement")
     /\ call.args[1][1].retirement_age - call.args[1][1].start_age = 0)
        => /\ call.returned[1].value = Zero
           /\ call.returned[1].data = << >>

\* A call with no contribution year, a positive contribution and a return of 100%.
C14_Witness ==
    /\ Returned("calculate_total_at_retirement")
    /\ call.args[1][1].retirement_age = call.args[1][1].start_age
    /\ call.args[1][1].annual_contribution = 600
    /\ call.args[1][1].pre_retirement_return = 1000
    /\ call.returned[1] = [value |-> Zero, data |-> << >>]

\* C15: the lump-sum tax is 16.5% of the taxable lump sum when that is positive
\* and 0 otherwise; it is never negative, and the lump sum after tax (the balance
\* at retirement minus the tax) never exceeds the balance.
C15_LumpSumTax ==
    Returned("calculate_lump_sum_tax")
        => LET total == call.args[1][1]
               r == call.returned[1]
           IN  /\ r.taxable_lump_sum = RSub(total, call.args[1][2])
               /\ r.lump_sum_tax = IF RLt(Zero, r.taxable_lump_sum)
                                   THEN RMul(r.taxable_lump_sum, Frac(165, 1000))
                                   ELSE Zero
               /\ RLe(Zero, r.lump_sum_tax)
               /\ r.lump_sum_take_home = RSub(total, r.lump_sum_tax)
               /\ RLe(r.lump_sum_take_home, total)

\* Non-deductible payments above the balance: the taxable lump sum is negative
\* and the tax is 0.
C15_Witness ==
    /\ Returned("calculate_lump_sum_tax")
    /\ call.args[1] = <<R(3000), R(6000)>>
    /\ call.returned[1] = [taxable_lump_sum |-> R(-3000), lump_sum_tax |-> Zero,
                           lump_sum_take_home |-> R(3000)]

\* C20: calculate_total_at_retirement runs retirement_age - start_age iterations;
\* each one turns the balance b into (b + contribution) * (1 + return) for
\* payment at the start of the year and into b * (1 + return) + contribution for
\* payment at the end, and records one point; the ages of the points are
\* start_age + 1 .. retirement_age in order, and the last point's balance is the
\* returned balance.
C20_AccumulationSeries ==
    Returned("calculate_total_at_retirement")
        => LET u == call.args[1][1]
               r == call.returned[1]
               n == u.retirement_age - u.start_age
               c == R(u.annual_contribution)
               g == RAdd(One, Frac(u.pre_retirement_return, 1000))
               Before(i) == IF i = 1 THEN Zero ELSE r.data[i - 1].value
           IN  /\ Len(r.data) = n
               /\ \A i \in 1 .. n :
                     /\ r.data[i].year = u.start_age + i
                     /\ r.data[i].value =
                            IF u.contribution_timing = START_OF_YEAR
                            THEN RMul(RAdd(Before(i), c), g)
                            ELSE RAdd(RMul(Before(i), g), c)
               /\ n > 0 => r.value = r.data[n].value

\* Three years of 6,000,000 paid at the start of the year at 100%: 12,000,000,
\* 36,000,000 and 84,000,000.
C20_Witness ==
    /\ Returned("calculate_total_at_retirement")
    /\ call.args[1][1].contribution_timing = START_OF_YEAR
    /\ call.args[1][1].retirement_age - call.args[1][1].start_age = 3
    /\ call.returned[1].value = R(8400)
    /\ call.returned[1].data[2] = [year |-> call.args[1][1].start_age + 2, value |-> R(3600)]

C16_RowOk(row) ==
    /\ RAdd(row.locals.from_non_taxable, row.locals.from_taxable) = row.annual_payout
    /\ RLt(Zero, row.locals.from_taxable)
          => row.locals.from_non_taxable = row.locals.non_taxable_wallet

\* C16: in every payout year the parts taken from the two wallets add up to the
\* year's withdrawal, and the taxable wallet is drawn on only when the whole
\* non-taxable wallet entering the year is taken.
C16_NonTaxableFirst == \A i \in RowIndices : C16_RowOk(annual_breakdown[i])

\* A year whose withdrawal empties a non-empty non-taxable wallet and takes the
\* rest from the taxable wallet.
C16_Witness ==
    \E i \in RowIndices :
        /\ RLt(Zero, annual_breakdown[i].locals.non_taxable_wallet)
        /\ RLt(Zero, annual_breakdown[i].locals.from_taxable)
        /\ annual_breakdown[i].locals.from_non_taxable
             = annual_breakdown[i].locals.non_taxable_wallet

C17_RowOk(row) ==
    row.choice = LOW_RATE
        => /\ row.pension_tax
                = RMul(row.pension_payout_under_limit,
                       IF row.age < 70 THEN Frac(55, 1000)
                       ELSE IF row.age < 80 THEN Frac(44, 1000)
                       ELSE Frac(33, 1000))
           /\ row.comprehensive = row.pension_tax
           /\ row.separate = row.pension_tax

\* C17: in low-rate mode the pension tax is the within-limit taxable withdrawal
\* times 5.5% below age 70, 4.4% from 70 to 79 and 3.3% from 80, whatever the
\* other pension income is, and the row's comprehensive and separate taxes both
\* equal it.
C17_LowRateTaxByAgeBand == \A i \in RowIndices : C17_RowOk(annual_breakdown[i])

\* A simulation with other pension income that is taxed at the low rate at the
\* ages 69, 70 and 80.
C17_Witness ==
    /\ user_input_obj # NoUserInput
    /\ RLt(Zero, OtherPensionIncome)
    /\ \A a \in {69, 70, 80} :
          \E i \in RowIndices :
              /\ annual_breakdown[i].age = a
              /\ annual_breakdown[i].choice = LOW_RATE
              /\ RLt(Zero, annual_breakdown[i].pension_tax)

\* The progressive tax, local tax included, on a pension income after its
\* deduction plus the other comprehensive income of the current input.
C18_TaxOnBase(pension_income) ==
    get_comprehensive_tax(
        RAdd(RSub(pension_income, get_pension_income_deduction_amount(pension_income)),
             R(user_input_obj.other_comprehensive_income)),
        TRUE)

C18_RowOk(row) ==
    row.choice \in {COMPREHENSIVE, SEPARATE}
        => LET with == C18_TaxOnBase(RAdd(row.pension_payout_under_limit, OtherPensionIncome))
               without == C18_TaxOnBase(OtherPensionIncome)
           IN  /\ row.comprehensive = RMax(Zero, RSub(with, without))
               /\ RLe(Zero, row.comprehensive)
               /\ (OtherPensionIncome = Zero /\ user_input_obj.other_comprehensive_income = 0)
                     => /\ without = Zero
                        /\ row.comprehensive
                             = get_comprehensive_tax(
                                   RSub(row.pension_payout_under_limit,
                                        get_pension_income_deduction_amount(
                                            row.pension_payout_under_limit)),
                                   TRUE)

\* C18: above the threshold a row's comprehensive tax is
\* max(0, tax with the withdrawal - tax without it), never negative; with no other
\* pension income and no other comprehensive income the tax without is 0 and the
\* comprehensive tax is the progressive tax on the withdrawal less its deduction.
C18_ComprehensiveTaxIsMarginal ==
    user_input_obj # NoUserInput => \A i \in RowIndices : C18_RowOk(annual_breakdown[i])

\* A year above the threshold whose other income is taxed by itself, so that the
\* comprehensive tax is a difference of two positive taxes.
C18_Witness ==
    /\ user_input_obj # NoUserInput
    /\ RLt(Zero, C18_TaxOnBase(OtherPensionIncome))
    /\ \E i \in RowIndices :
          /\ annual_breakdown[i].choice \in {COMPREHENSIVE, SEPARATE}
          /\ RLt(Zero, annual_breakdown[i].comprehensive)
          /\ RLt(annual_breakdown[i].comprehensive,
                 C18_TaxOnBase(RAdd(annual_breakdown[i].pension_payout_under_limit,
                                    OtherPensionIncome)))

\* A year above the threshold with no other income at all.
C18_NoOtherIncomeReached ==
    /\ user_input_obj # NoUserInput
    /\ OtherPensionIncome = Zero
    /\ user_input_obj.other_comprehensive_income = 0
    /\ \E i \in RowIndices :
          /\ annual_breakdown[i].choice \in {COMPREHENSIVE, SEPARATE}
          /\ RLt(Zero, annual_breakdown[i].comprehensive)

C19_RowOk(row) ==
    /\ RLe(row.pension_payout_under_limit, Zero)
          => /\ row.pension_tax = Zero
             /\ row.comprehensive = Zero
             /\ row.separate = Zero
             /\ row.choice = NOT_APPLICABLE
    /\ RLe(Zero, row.pension_tax)

\* C19: a row whose within-limit taxable withdrawal is 0 or less has pension tax,
\* comprehensive tax and separate tax 0 and the mode "not applicable", which only
\* the branch that skips calculate_annual_pension_tax produces; no row has a
\* negative pension tax.
C19_NoTaxWithoutTaxableWithdrawal == \A i \in RowIndices : C19_RowOk(annual_breakdown[i])

\* A year paid entirely from the non-taxable wallet.
C19_Witness ==
    \E i \in RowIndices :
        /\ RLt(Zero, annual_breakdown[i].annual_payout)
        /\ annual_breakdown[i].pension_payout_under_limit = Zero
        /\ annual_breakdown[i].choice = NOT_APPLICABLE
        /\ annual_breakdown[i].pension_tax = Zero

---------------------------------------------------------------------------
\* The stored input and the session (specification SpecApp).

\* The stored UserInput is the one the button would build from the session now,
\* and the validation of lines 668-673 finds nothing in it.
C21_StoredInputIsCurrent ==
    /\ user_input_obj # NoUserInput
    /\ user_input_obj = UserInput(session_state)
    /\ ValidationErrors(user_input_obj) = << >>

\* A step changes a value the widgets hold.
C21_InputChanged ==
    \/ UserInput(session_state') # UserInput(session_state)
    \/ session_state'.auto_calc_non_deductible # session_state.auto_calc_non_deductible

\* C21: whenever the session's 'calculated' is True the stored UserInput equals
\* the session's current input values, include_pension_deduction included, and
\* passed the validation; every step that changes an input leaves 'calculated'
\* False, and 'calculated' becomes True only by a button press that stores the
\* session's inputs and finds no error.
C21_CalculatedOnlyForCurrentValidInput ==
    /\ [](session_state.calculated => C21_StoredInputIsCurrent)
    /\ [][C21_InputChanged => ~session_state'.calculated]_vars
    /\ [][(~session_state.calculated /\ session_state'.calculated)
             => /\ user_input_obj' = UserInput(session_state)
                /\ errors' = << >>
                /\ pc' = "display"]_vars

\* The deduction was switched on after a first calculation and the button was
\* pressed again: the result displayed is the one of the session's current flag.
C21_Witness ==
    /\ session_state.calculated
    /\ session_state.has_calculated_once
    /\ session_state.include_pension_deduction
    /\ user_input_obj # NoUserInput
    /\ user_input_obj.include_pension_deduction
    /\ pc = "done"

---------------------------------------------------------------------------
\* The tax of a payout year (specification Spec).

C22_RowOk(row) ==
    (RLe(Zero, row.locals.non_taxable_wallet) /\ RLe(Zero, row.locals.taxable_wallet))
        => /\ row.total_tax_paid = RAdd(row.pension_tax, row.tax_on_limit_excess)
           /\ RLe(row.total_tax_paid, RMul(row.locals.from_taxable, Frac(165, 1000)))
           /\ row.annual_take_home = RSub(row.annual_payout, row.total_tax_paid)
           /\ RLe(Zero, row.annual_take_home)
           /\ RLe(row.annual_take_home, row.annual_payout)

\* C22: in every row of a year entered with both wallets non-negative, the total
\* tax (pension tax plus tax on the excess over the limit) is at most 16.5% of the
\* year's withdrawal from the taxable wallet, and the amount after tax is between
\* 0 and the withdrawal.
C22_TotalTaxAtMostSeparateRate == \A i \in RowIndices : C22_RowOk(annual_breakdown[i])

\* A year over the limit that is taxed separately: the total tax is exactly 16.5%
\* of the taxable withdrawal.
C22_Witness ==
    \E i \in RowIndices :
        /\ RLe(Zero, annual_breakdown[i].locals.non_taxable_wallet)
        /\ RLe(Zero, annual_breakdown[i].locals.taxable_wallet)
        /\ RLt(Zero, annual_breakdown[i].tax_on_limit_excess)
        /\ annual_breakdown[i].choice = SEPARATE
        /\ annual_breakdown[i].total_tax_paid
             = RMul(annual_breakdown[i].locals.from_taxable, Frac(165, 1000))

---------------------------------------------------------------------------
\* The last payout year (specification Spec).

C23_RowOk(row) ==
    /\ RLe(Zero, row.annual_payout)
    /\ RLe(row.annual_payout, row.locals.current_balance)
    /\ (RLt(R(-1), PostRetRate) /\ row.locals.remaining_years = 1)
          => /\ row.annual_payout = row.locals.current_balance
             /\ row.end_balance = Zero

\* C23: every year's withdrawal is between 0 and the balance entering the year;
\* with a return after retirement above -100% the withdrawal of the last year
\* (one year remaining) is the whole entering balance, so a ledger with all its
\* N rows ends with the balance 0.
C23_LastYearEmptiesTheAccount ==
    user_input_obj # NoUserInput
        => /\ \A i \in RowIndices : C23_RowOk(annual_breakdown[i])
           /\ (RLt(R(-1), PostRetRate)
               /\ Len(annual_breakdown) = PayoutYears(user_input_obj))
                 => annual_breakdown[Len(annual_breakdown)].end_balance = Zero

\* A complete ledger under a return of -50%, where the withdrawal comes from the
\* annuity factor: its last row withdraws the whole balance.
C23_Witness ==
    /\ user_input_obj # NoUserInput
    /\ user_input_obj.post_retirement_return = -500
    /\ pc = "done"
    /\ Len(annual_breakdown) = PayoutYears(user_input_obj)
    /\ annual_breakdown[Len(annual_breakdown)].locals.remaining_years = 1
    /\ RLt(Zero, annual_breakdown[Len(annual_breakdown)].annual_payout)
    /\ annual_breakdown[Len(annual_breakdown)].end_balance = Zero

---------------------------------------------------------------------------
\* The command-line program against the form (specification SpecCalls).

\* C24: calculate_comprehensive_tax of src/main.py returns what
\* get_comprehensive_tax of src/app.py returns with the local tax included, for
\* every taxable income; calculate_pension_income_deduction of src/main.py returns
\* what get_pension_income_deduction_amount returns with the deduction included,
\* for every pension income of 0 or more.
C24_CommandLineAgreesWithForm ==
    /\ Returned("calculate_comprehensive_tax")
          => call.returned[1] = get_comprehensive_tax(call.args[1][1], TRUE)
    /\ (/\ Returned("calculate_pension_income_deduction")
        /\ session_state.include_pension_deduction
        /\ RLe(Zero, call.args[1][1]))
          => call.returned[1] = get_pension_income_deduction_amount(call.args[1][1])

\* A taxable income of 50,010,000, one unit into the third bracket: both give
\* 50,010,000 * 0.264 - 6,336,000 = 6,866,640.
C24_Witness ==
    /\ Returned("calculate_comprehensive_tax")
    /\ call.args[1] = <<R(5001)>>
    /\ call.returned[1] = Frac(686664, 1000)
    /\ get_comprehensive_tax(R(5001), TRUE) = Frac(686664, 1000)

\* The deduction of the command-line program at the ceiling, with the form's
\* deduction included.
C24_DeductionReached ==
    /\ Returned("calculate_pension_income_deduction")
    /\ session_state.include_pension_deduction
    /\ call.args[1] = <<R(4101)>>
    /\ call.returned[1] = R(900)

=============================================================================
